---- MODULE Spec2Model ----
(***************************************************************************)
(* A model of the gh-webhook service: the GitHub payload parser            *)
(* (app/services/github_parser.py), the event model                        *)
(* (app/models/event_model.py) and the two HTTP handlers                   *)
(* (app/webhook/routes.py) over a MongoDB collection.                      *)
(*                                                                         *)
(* Python strings are sequences of one-character strings, so that          *)
(* lower(), strip(), replace(), startswith(), slicing, fromisoformat(),    *)
(* strftime() and MongoDB's binary string comparison are computed and not  *)
(* assumed.  JSON values are tagged records [t |-> tag, v |-> value].      *)
(***************************************************************************)
EXTENDS Integers, Sequences, FiniteSets, Bags, TLC

\* events: the documents of mongo.db.events in insertion order.  clock: the
\* last clock reading.  pending: the bag of the webhook handlers that have
\* parsed their request and have called insert_one, which has not returned
\* yet (requests are served concurrently); id is the _id of the document the
\* store has written for the handler, 0 before it has written one.  req,
\* resp: the request last acted on and its response.  cursor, delivered: the
\* polling client.
VARIABLES events, clock, pending, req, resp, cursor, delivered

vars == <<events, clock, pending, req, resp, cursor, delivered>>

----------------------------------------------------------------------------
(* Python str operations                                                   *)

\* A str is a sequence of ASCII characters.  These are the printable ones in
\* code-point order (32 .. 126); the atom "GRAVE" stands for the grave accent
\* (code 96).  The other characters of a str are the ASCII whitespace: tab,
\* newline, "\f", "\r" and the atoms "VT" (11), "FS", "GS", "RS", "US" (28 ..
\* 31).
Ascii ==
  << " ", "!", "\"", "#", "$", "%", "&", "'", "(", ")", "*", "+", ",", "-", ".", "/",
     "0", "1", "2", "3", "4", "5", "6", "7", "8", "9", ":", ";", "<", "=", ">", "?",
     "@", "A", "B", "C", "D", "E", "F", "G", "H", "I", "J", "K", "L", "M", "N", "O",
     "P", "Q", "R", "S", "T", "U", "V", "W", "X", "Y", "Z", "[", "\\", "]", "^", "_",
     "GRAVE", "a", "b", "c", "d", "e", "f", "g", "h", "i", "j", "k", "l", "m", "n", "o",
     "p", "q", "r", "s", "t", "u", "v", "w", "x", "y", "z", "{", "|", "}", "~" >>

\* ord(c).
Ord(c) ==
  CASE c = "\t" -> 9
    [] c = "\n" -> 10
    [] c = "VT" -> 11
    [] c = "\f" -> 12
    [] c = "\r" -> 13
    [] c = "FS" -> 28
    [] c = "GS" -> 29
    [] c = "RS" -> 30
    [] c = "US" -> 31
    [] OTHER -> 31 + (CHOOSE i \in 1..Len(Ascii) : Ascii[i] = c)

\* a < b for two strings: code-point lexicographic order, a proper prefix
\* first; LessFrom compares them from position i on.
RECURSIVE LessFrom(_, _, _)
LessFrom(a, b, i) ==
  IF i > Len(b) THEN FALSE
  ELSE IF i > Len(a) THEN TRUE
  ELSE IF a[i] = b[i] THEN LessFrom(a, b, i + 1)
  ELSE Ord(a[i]) < Ord(b[i])

StrLess(a, b) == LessFrom(a, b, 1)

\* str.lower() on one character.
LowerChar(c) ==
  IF c \in {"A", "B", "C", "D", "E", "F", "G", "H", "I", "J", "K", "L", "M", "N", "O",
            "P", "Q", "R", "S", "T", "U", "V", "W", "X", "Y", "Z"}
    THEN Ascii[Ord(c) + 32 - 31]
  ELSE c

\* str.lower()
Lower(s) == [i \in 1..Len(s) |-> LowerChar(s[i])]

\* str.isspace() on one ASCII character: space, \t, \n, \v, \f, \r and the
\* separators 28 .. 31.
IsSpace(c) == c \in {" ", "\t", "\n", "VT", "\f", "\r", "FS", "GS", "RS", "US"}

\* str.strip()
RECURSIVE LStrip(_)
LStrip(s) == IF s # <<>> /\ IsSpace(Head(s)) THEN LStrip(Tail(s)) ELSE s

RECURSIVE RStrip(_)
RStrip(s) ==
  IF s # <<>> /\ IsSpace(s[Len(s)]) THEN RStrip(SubSeq(s, 1, Len(s) - 1)) ELSE s

Strip(s) == RStrip(LStrip(s))

\* s.startswith(prefix)
StartsWith(s, prefix) ==
  Len(s) >= Len(prefix) /\ SubSeq(s, 1, Len(prefix)) = prefix

\* s.replace(old, new) for a non-empty old: every non-overlapping occurrence,
\* scanning left to right.
RECURSIVE Replace(_, _, _)
Replace(s, old, new) ==
  IF s = <<>> THEN <<>>
  ELSE IF StartsWith(s, old)
    THEN new \o Replace(SubSeq(s, Len(old) + 1, Len(s)), old, new)
  ELSE <<Head(s)>> \o Replace(Tail(s), old, new)

\* s[:n]
Prefix(s, n) == SubSeq(s, 1, IF Len(s) < n THEN Len(s) ELSE n)

IsDigit(c) == c \in {"0", "1", "2", "3", "4", "5", "6", "7", "8", "9"}

DigitVal(c) == Ord(c) - Ord("0")

\* str(n) for n >= 0.
RECURSIVE NatStr(_)
NatStr(n) ==
  IF n < 10 THEN <<Ascii[n + 17]>> ELSE NatStr(n \div 10) \o <<Ascii[(n % 10) + 17]>>

\* str(n) for an int.
IntStr(n) == IF n < 0 THEN <<"-">> \o NatStr(0 - n) ELSE NatStr(n)

\* '%02d' % n
Pad2(n) == IF n < 10 THEN <<"0">> \o NatStr(n) ELSE NatStr(n)

\* n zero-padded to six digits (the microsecond field of isoformat()).
RECURSIVE PadLeft(_, _)
PadLeft(s, w) == IF Len(s) >= w THEN s ELSE PadLeft(<<"0">> \o s, w)

----------------------------------------------------------------------------
(* JSON values as Python sees them after request.get_json()                *)

Null == [t |-> "null", v |-> 0]
Bool(b) == [t |-> "bool", v |-> b]
Num(n) == [t |-> "num", v |-> n]
Str(s) == [t |-> "str", v |-> s]
List(l) == [t |-> "list", v |-> l]
Obj(f) == [t |-> "obj", v |-> f]

\* The empty dict {} (a function with an empty domain).
EmptyObj == Obj([k \in {} |-> Null])

\* The outcome of an expression that raised an exception.
Raise == [t |-> "raise", v |-> 0]

IsStr(x) == x.t = "str"
IsObj(x) == x.t = "obj"

\* bool(x): None, False, 0, '', [] and {} are falsy.
Truthy(x) ==
  CASE x.t = "null" -> FALSE
    [] x.t = "bool" -> x.v
    [] x.t = "num" -> x.v # 0
    [] x.t = "str" -> x.v # <<>>
    [] x.t = "list" -> x.v # <<>>
    [] x.t = "obj" -> DOMAIN x.v # {}

\* x.get(key, default): only a dict has .get; anything else raises
\* AttributeError, and so does a lookup on something that already raised.
Get(x, key, default) ==
  IF ~IsObj(x) THEN Raise
  ELSE IF key \in DOMAIN x.v THEN x.v[key] ELSE default

\* str(x) for a scalar (request_id = str(number)); str of a str is itself.
PyStr(x) ==
  CASE x.t = "str" -> x.v
    [] x.t = "num" -> IntStr(x.v)
    [] x.t = "null" -> <<"N", "o", "n", "e">>
    [] x.t = "bool" -> IF x.v THEN <<"T", "r", "u", "e">> ELSE <<"F", "a", "l", "s", "e">>

----------------------------------------------------------------------------
(* datetime: the proleptic Gregorian calendar of Python's datetime module  *)

IsLeap(y) == y % 4 = 0 /\ (y % 100 # 0 \/ y % 400 = 0)

DaysInMonth(y, m) ==
  IF m = 2 THEN (IF IsLeap(y) THEN 29 ELSE 28)
  ELSE IF m \in {4, 6, 9, 11} THEN 30 ELSE 31

\* The number of days of year y before the first day of month m.
RECURSIVE DaysBeforeMonth(_, _)
DaysBeforeMonth(y, m) ==
  IF m = 1 THEN 0 ELSE DaysBeforeMonth(y, m - 1) + DaysInMonth(y, m - 1)

\* The number of days before January 1st of year y.
DaysBeforeYear(y) ==
  (y - 1) * 365 + ((y - 1) \div 4) - ((y - 1) \div 100) + ((y - 1) \div 400)

\* date.toordinal(): 0001-01-01 is day 1.
Ymd2Ord(y, m, d) == DaysBeforeYear(y) + DaysBeforeMonth(y, m) + d

\* date.max.toordinal(), 9999-12-31.
MaxOrdinal == Ymd2Ord(9999, 12, 31)

\* The year that holds ordinal n (1 <= n <= MaxOrdinal).
YearOfOrd(n) ==
  LET n0 == n - 1
      n400 == n0 \div 146097
      r400 == n0 % 146097
      n100 == r400 \div 36524
      r100 == r400 % 36524
      n4 == r100 \div 1461
      r4 == r100 % 1461
      n1 == r4 \div 365
      y == n400 * 400 + n100 * 100 + n4 * 4 + n1 + 1
  IN IF n1 = 4 \/ n100 = 4 THEN y - 1 ELSE y

\* The month of year y that holds its day number doy (1 .. 366).
MonthOfDay(y, doy) ==
  CHOOSE k \in 1..12 :
    DaysBeforeMonth(y, k) < doy /\ doy <= DaysBeforeMonth(y, k) + DaysInMonth(y, k)

\* <<y, m, day of month>> for day number doy of month m of year y.
DateInMonth(y, m, doy) == <<y, m, doy - DaysBeforeMonth(y, m)>>

\* <<year, month, day>> of day number doy of year y.
DateInYear(y, doy) == DateInMonth(y, MonthOfDay(y, doy), doy)

\* <<year, month, day>> of ordinal n, which lies in year y.
DayOfYear(y, n) == DateInYear(y, n - DaysBeforeYear(y))

\* date.fromordinal(n) as <<year, month, day>>.
Ord2Ymd(n) == DayOfYear(YearOfOrd(n), n)

\* A datetime value: us is the microsecond; off and offus are the seconds and
\* microseconds of the UTC offset of an aware datetime.
DateTime(y, mo, d, h, mi, s, us, aware, off, offus) ==
  [t |-> "datetime", year |-> y, month |-> mo, day |-> d, hour |-> h, minute |-> mi,
   second |-> s, us |-> us, aware |-> aware, off |-> off, offus |-> offus]

\* What the parser reads past the last character of a string.
Nul == ""

\* The character of s at the 0-based position p.
CharAt(s, p) == IF p >= 0 /\ p < Len(s) THEN s[p + 1] ELSE Nul

\* parse_digits: the number written by the n characters of s from position
\* p, or -1 when one of them is not a digit.
RECURSIVE ParseDigits(_, _, _)
ParseDigits(s, p, n) ==
  IF n = 0 THEN 0
  ELSE IF ~IsDigit(CharAt(s, p + n - 1)) THEN -1
  ELSE LET hi == ParseDigits(s, p, n - 1)
       IN IF hi < 0 THEN -1 ELSE hi * 10 + DigitVal(CharAt(s, p + n - 1))

\* The position of the first non-digit of s from position p on.
RECURSIVE SkipDigits(_, _)
SkipDigits(s, p) == IF IsDigit(CharAt(s, p)) THEN SkipDigits(s, p + 1) ELSE p

\* _find_isoformat_datetime_separator: where the date part of s ends (-1:
\* nowhere).
FindSeparator(s) ==
  IF Len(s) = 7 THEN 7
  ELSE IF CharAt(s, 4) = "-"
    THEN IF CharAt(s, 5) = "W"
           THEN IF Len(s) < 8 THEN -1
                ELSE IF Len(s) > 8 /\ CharAt(s, 8) = "-"
                  THEN IF Len(s) = 9 THEN -1
                       ELSE IF Len(s) > 10 /\ IsDigit(CharAt(s, 10)) THEN 8
                       ELSE 10
                ELSE 8
         ELSE 10
  ELSE IF CharAt(s, 4) = "W"
    THEN LET idx == SkipDigits(s, 7)
         IN IF idx < 9 THEN idx ELSE IF idx % 2 = 0 THEN 7 ELSE 8
  ELSE 8

\* date(y, m, d): <<y, m, d>>, or Raise (ValueError) when out of range.
CheckDate(y, m, d) ==
  IF y >= 1 /\ m \in 1..12 /\ d >= 1 /\ d <= DaysInMonth(y, m) THEN <<y, m, d>> ELSE Raise

\* The ordinal of the Monday that starts ISO week 1 of a year whose January
\* 1st is the day first_day.
Week1Monday(first_day) ==
  first_day - ((first_day + 6) % 7) + (IF (first_day + 6) % 7 > 3 THEN 7 ELSE 0)

\* Whether a year has an ISO week 53: it starts on a Thursday, or is a leap
\* year that starts on a Wednesday.
HasWeek53(year) ==
  \/ (Ymd2Ord(year, 1, 1) + 6) % 7 = 3
  \/ (Ymd2Ord(year, 1, 1) + 6) % 7 = 2 /\ IsLeap(year)

\* iso_to_ymd: the date of day iso_day of ISO week iso_week of iso_year, or
\* Raise when there is no such week or day, or when the date lies outside
\* 0001-01-01 .. 9999-12-31.
iso_to_ymd(iso_year, iso_week, iso_day) ==
  IF iso_week < 0 \/ iso_day < 0 THEN Raise
  ELSE IF (iso_week = 0 \/ iso_week >= 53) /\ ~(iso_week = 53 /\ HasWeek53(iso_year)) THEN Raise
  ELSE IF iso_day = 0 \/ iso_day >= 8 THEN Raise
  ELSE LET ordinal == Week1Monday(Ymd2Ord(iso_year, 1, 1)) + (iso_week - 1) * 7 + iso_day - 1
       IN IF ordinal < 1 \/ ordinal > MaxOrdinal THEN Raise ELSE Ord2Ymd(ordinal)

\* The week form of a date: Www, then the day unless the date part ends
\* after the week (then Monday); p is the position after the W.
WeekDate(s, p, len, uses_separator, year) ==
  IF p + 2 < len
    THEN IF uses_separator /\ CharAt(s, p + 2) # "-" THEN Raise
         ELSE iso_to_ymd(year, ParseDigits(s, p, 2),
                         ParseDigits(s, p + 2 + (IF uses_separator THEN 1 ELSE 0), 1))
  ELSE iso_to_ymd(year, ParseDigits(s, p, 2), 1)

\* The calendar form of a date: MM, the separator if the year had one, DD.
MonthDay(s, p, uses_separator, year) ==
  IF uses_separator /\ CharAt(s, p + 2) # "-" THEN Raise
  ELSE CheckDate(year, ParseDigits(s, p, 2),
                 ParseDigits(s, p + 2 + (IF uses_separator THEN 1 ELSE 0), 2))

\* parse_isoformat_date on the first len characters of s: <<y, m, d>> of a
\* date that exists, or Raise (ValueError).
parse_isoformat_date(s, len) ==
  LET year == ParseDigits(s, 0, 4)
      uses_separator == CharAt(s, 4) = "-"
      p == IF uses_separator THEN 5 ELSE 4
  IN IF year < 0 THEN Raise
     ELSE IF CharAt(s, p) = "W" THEN WeekDate(s, p + 1, len, uses_separator, year)
     ELSE MonthDay(s, p, uses_separator, year)

\* The result of parse_hh_mm_ss_ff: rv is 1 when characters follow what was
\* parsed, vals the components read.
TimeComps(vals, us, rv) ==
  [rv |-> rv, hour |-> vals[1], minute |-> IF Len(vals) > 1 THEN vals[2] ELSE 0,
   second |-> IF Len(vals) > 2 THEN vals[3] ELSE 0, us |-> us]

\* The fraction read as us from to_parse digits (the correction makes it
\* microseconds); last is the character after the digits that follow them.
FractionValue(us, to_parse, last, vals) ==
  IF us < 0 THEN Raise
  ELSE TimeComps(vals, us * <<100000, 10000, 1000, 100, 10, 1>>[to_parse],
                 IF last # Nul THEN 1 ELSE 0)

\* The fractional component from position p: at most six digits count,
\* further digits are skipped.
Fraction(s, p, pEnd, vals) ==
  LET to_parse == IF pEnd - p >= 6 THEN 6 ELSE pEnd - p
  IN FractionValue(ParseDigits(s, p, to_parse), to_parse,
                   CharAt(s, SkipDigits(s, p + to_parse)), vals)

\* The loop of parse_hh_mm_ss_ff over hours, minutes and seconds: component i
\* starts at position p.
RECURSIVE HhMmSs(_, _, _, _, _, _)

\* After component i: c is the character that follows it and q the position
\* after c.
AfterComp(s, q, pEnd, i, c, has_separator, vals) ==
  IF q >= pEnd THEN TimeComps(vals, 0, IF c # Nul THEN 1 ELSE 0)
  ELSE IF has_separator /\ c = ":"
    THEN IF i = 2 THEN Fraction(s, q, pEnd, vals)
         ELSE HhMmSs(s, q, pEnd, i + 1, has_separator, vals)
  ELSE IF c \in {".", ","} THEN Fraction(s, q, pEnd, vals)
  ELSE IF ~has_separator
    THEN IF i = 2 THEN Fraction(s, q - 1, pEnd, vals)
         ELSE HhMmSs(s, q - 1, pEnd, i + 1, has_separator, vals)
  ELSE Raise

\* Component i is read; the character after the first component decides
\* whether ":" separates.
HhMmSs(s, p, pEnd, i, has_separator, vals) ==
  LET v == ParseDigits(s, p, 2)
  IN IF v < 0 THEN Raise
     ELSE AfterComp(s, p + 3, pEnd, i, CharAt(s, p + 2),
                    IF i = 0 THEN CharAt(s, p + 2) = ":" ELSE has_separator,
                    Append(vals, v))

\* parse_hh_mm_ss_ff on the characters of s from p up to pEnd:
\* HH[:?MM[:?SS[(.|,)f...]]], or Raise.
parse_hh_mm_ss_ff(s, p, pEnd) == HhMmSs(s, p, pEnd, 0, TRUE, <<>>)

\* The position of the first "Z", "+" or "-" from p on, pEnd when there is
\* none.
RECURSIVE TzInfoPos(_, _, _)
TzInfoPos(s, p, pEnd) ==
  IF CharAt(s, p) \in {"Z", "+", "-"} THEN p
  ELSE IF p + 1 < pEnd THEN TzInfoPos(s, p + 1, pEnd)
  ELSE p + 1

\* A parsed time with its UTC offset (Null: none).
WithTz(time, tz) ==
  [hour |-> time.hour, minute |-> time.minute, second |-> time.second, us |-> time.us,
   tz |-> tz]

\* The offset parsed as tz after its sign; nothing may follow it.  An offset
\* of 0 seconds is UTC whatever its microseconds.
TzOf(time, sign, tz) ==
  IF tz = Raise THEN Raise
  ELSE IF tz.rv # 0 THEN Raise
  ELSE LET secs == sign * (tz.hour * 3600 + tz.minute * 60 + tz.second)
       IN WithTz(time, [secs |-> secs, us |-> IF secs = 0 THEN 0 ELSE sign * tz.us])

\* The time parsed as time, then the offset found at tzPos.
TimeAndTz(s, pEnd, tzPos, time) ==
  IF time = Raise THEN Raise
  ELSE IF tzPos = pEnd THEN (IF time.rv = 1 THEN Raise ELSE WithTz(time, Null))
  ELSE IF CharAt(s, tzPos) = "Z"
    THEN IF CharAt(s, tzPos + 1) # Nul THEN Raise ELSE WithTz(time, [secs |-> 0, us |-> 0])
  ELSE TzOf(time, IF CharAt(s, tzPos) = "-" THEN -1 ELSE 1,
            parse_hh_mm_ss_ff(s, tzPos + 1, pEnd))

\* parse_isoformat_time on the characters of s from p up to pEnd.
parse_isoformat_time(s, p, pEnd) ==
  LET tzinfo_pos == TzInfoPos(s, p, pEnd)
  IN TimeAndTz(s, pEnd, tzinfo_pos, parse_hh_mm_ss_ff(s, p, tzinfo_pos))

\* timezone(timedelta(seconds, microseconds)): the offset must be strictly
\* between -24 and 24 hours (us has the sign of secs and is less than a
\* second).
CheckOffset(secs, us) == secs > -86400 /\ secs < 86400

\* datetime(y, m, d, h, mi, s, us, tzinfo): Raise (ValueError) when the time
\* or the offset is out of range.
Combine(date, time) ==
  IF date = Raise \/ time = Raise THEN Raise
  ELSE IF time.hour > 23 \/ time.minute > 59 \/ time.second > 59 THEN Raise
  ELSE IF time.tz = Null
    THEN DateTime(date[1], date[2], date[3], time.hour, time.minute, time.second, time.us,
                  FALSE, 0, 0)
  ELSE IF ~CheckOffset(time.tz.secs, time.tz.us) THEN Raise
  ELSE DateTime(date[1], date[2], date[3], time.hour, time.minute, time.second, time.us,
                TRUE, time.tz.secs, time.tz.us)

\* The date part of s ends at separator_location; one character separates it
\* from the time part, and a string that is a date only is midnight without
\* an offset.
DateAndTime(s, separator_location) ==
  IF separator_location < 0 THEN Raise
  ELSE Combine(parse_isoformat_date(s, separator_location),
               IF Len(s) > separator_location
                 THEN parse_isoformat_time(s, separator_location + 1, Len(s))
               ELSE WithTz(TimeComps(<<0>>, 0, 0), Null))

\* datetime.fromisoformat(s): a datetime or Raise (ValueError).  The formats
\* are those of CPython 3.11: YYYY-MM-DD, YYYYMMDD, YYYY-Www[-D], YYYYWww[D],
\* then any one character and HH[:MM[:SS[.f...]]] or HH[MM[SS[.f...]]], then
\* Z or (+|-) and an offset in the same form.
fromisoformat(s) == DateAndTime(s, FindSeparator(s))

\* dt.replace(tzinfo=timezone.utc)
ReplaceTzUtc(dt) == [dt EXCEPT !.aware = TRUE, !.off = 0, !.offus = 0]

\* The Python floor division a // b and modulo a % b for b > 0.
FloorDiv(a, b) == IF a >= 0 THEN a \div b ELSE 0 - (((0 - a) + b - 1) \div b)

FloorMod(a, b) == a - b * FloorDiv(a, b)

\* The aware UTC datetime on date ymd at second secs of the day.
AtDate(ymd, secs, us) ==
  DateTime(ymd[1], ymd[2], ymd[3], secs \div 3600, (secs % 3600) \div 60, secs % 60, us,
           TRUE, 0, 0)

\* The UTC datetime of a day and second, or Raise (OverflowError) when the day
\* leaves 0001-01-01 .. 9999-12-31.
UtcAt(ordinal, secs, us) ==
  IF ordinal < 1 \/ ordinal > MaxOrdinal THEN Raise ELSE AtDate(Ord2Ymd(ordinal), secs, us)

\* The UTC datetime total seconds after midnight of day ordinal.
UtcFrom(ordinal, total, us) ==
  UtcAt(ordinal + FloorDiv(total, 86400), FloorMod(total, 86400), us)

\* dt.astimezone(timezone.utc) for an aware dt: the same instant at offset 0.
AsTimezoneUtc(dt) ==
  UtcFrom(Ymd2Ord(dt.year, dt.month, dt.day),
          dt.hour * 3600 + dt.minute * 60 + dt.second - dt.off
            + FloorDiv(dt.us - dt.offus, 1000000),
          FloorMod(dt.us - dt.offus, 1000000))

\* dt.strftime('%Y-%m-%dT%H:%M:%SZ').  The C library's %Y does not pad the
\* year: a year below 1000 prints with fewer than four digits.
StrftimeZ(dt) ==
  NatStr(dt.year) \o <<"-">> \o Pad2(dt.month) \o <<"-">> \o Pad2(dt.day) \o <<"T">>
    \o Pad2(dt.hour) \o <<":">> \o Pad2(dt.minute) \o <<":">> \o Pad2(dt.second) \o <<"Z">>

\* A reading of the wall clock: ordinal day, second of the day, microsecond.
Instant(ordinal, secs, us) == [ord |-> ordinal, secs |-> secs, us |-> us]

\* The UTC datetime of an instant: datetime.now(timezone.utc), and
\* datetime.utcnow() but for its tzinfo.
DateTimeOf(now) == AtDate(Ord2Ymd(now.ord), now.secs, now.us)

\* dt.isoformat() of a naive datetime: YYYY-MM-DDTHH:MM:SS, with .ffffff
\* appended when the microsecond is not 0.
Isoformat(dt, us) ==
  PadLeft(NatStr(dt.year), 4) \o <<"-">> \o Pad2(dt.month) \o <<"-">> \o Pad2(dt.day)
    \o <<"T">> \o Pad2(dt.hour) \o <<":">> \o Pad2(dt.minute) \o <<":">> \o Pad2(dt.second)
    \o (IF us = 0 THEN <<>> ELSE <<".">> \o PadLeft(NatStr(us), 6))

\* datetime.utcnow().isoformat()
UtcNowIsoformat(now) == Isoformat(DateTimeOf(now), now.us)

----------------------------------------------------------------------------
(* app/services/github_parser.py                                           *)

\* The string literals of the parser.
Unknown == <<"U", "n", "k", "n", "o", "w", "n">>
RefsHeads == <<"r", "e", "f", "s", "/", "h", "e", "a", "d", "s", "/">>
PlusZero == <<"+", "0", "0", ":", "0", "0">>
Closed == <<"c", "l", "o", "s", "e", "d">>
PushTag == <<"p", "u", "s", "h">>
PullRequestTag == <<"p", "u", "l", "l", "_", "r", "e", "q", "u", "e", "s", "t">>

\* The three action values.
PUSH == Str(<<"P", "U", "S", "H">>)
PULL_REQUEST == Str(<<"P", "U", "L", "L", "_", "R", "E", "Q", "U", "E", "S", "T">>)
MERGE == Str(<<"M", "E", "R", "G", "E">>)

\* Python's None as the result of a parse function.
None == Null

\* utc_dt.strftime(...) of the converted datetime.
FormatUtc(utc_dt) == IF utc_dt = Raise THEN Raise ELSE Str(StrftimeZ(utc_dt))

\* A naive datetime is taken as UTC; the datetime is converted to UTC.
ToUtcString(dt) ==
  IF dt = Raise THEN Raise
  ELSE FormatUtc(AsTimezoneUtc(IF dt.aware THEN dt ELSE ReplaceTzUtc(dt)))

\* The body of the try block of _parse_github_timestamp: the UTC string, or
\* Raise when strip() (not a str), fromisoformat() or astimezone() raises.
TryParseTimestamp(timestamp_str) ==
  IF ~IsStr(timestamp_str) THEN Raise
  ELSE ToUtcString(fromisoformat(Replace(Strip(timestamp_str.v), <<"Z">>, PlusZero)))

\* datetime.now(timezone.utc).strftime('%Y-%m-%dT%H:%M:%SZ')
NowUtcString(now) == Str(StrftimeZ(DateTimeOf(now)))

\* OrNow without the except branch: the exception of the try block propagates.
OrNow_reraise(parsed, now) == parsed

\* The except branch: the current instant when the try block raised.
OrNow(parsed, now) == IF parsed = Raise THEN NowUtcString(now) ELSE parsed

\* GitHubParser._parse_github_timestamp: any exception of the try block is
\* caught and answered with the current instant.
_parse_github_timestamp(timestamp_str, now) == OrNow(TryParseTimestamp(timestamp_str), now)

\* x[:7] for the commit id: a str or a list can be sliced, anything else
\* raises TypeError (KeyError for a dict).
Slice7(x) ==
  IF x.t = "str" THEN Str(Prefix(x.v, 7))
  ELSE IF x.t = "list" THEN List(Prefix(x.v, 7))
  ELSE Raise

\* The author of a push: the pusher name, and when that is falsy or 'Unknown'
\* and the commits are truthy, the first commit's author name.
PushAuthor(payload) ==
  LET author == Get(Get(payload, "pusher", EmptyObj), "name", Str(Unknown)) IN
  IF author = Raise THEN Raise
  ELSE IF Truthy(author) /\ author # Str(Unknown) THEN author
  ELSE
    LET commits == Get(payload, "commits", List(<<>>)) IN
    IF ~Truthy(commits) THEN author
    ELSE IF commits.t # "list" THEN Raise
    ELSE Get(Get(commits.v[1], "author", EmptyObj), "name", Str(Unknown))

\* The branch of a push, from the ref.
PushBranch(payload) ==
  LET ref == Get(payload, "ref", Str(<<>>)) IN
  IF ref = Raise \/ ~IsStr(ref) THEN Raise
  ELSE IF StartsWith(ref.v, RefsHeads) THEN Str(Replace(ref.v, RefsHeads, <<>>))
  ELSE ref

\* The request id of a push: the first seven characters of the head commit id.
PushRequestId(payload) ==
  LET head_commit == Get(payload, "head_commit", EmptyObj)
      id == Get(head_commit, "id", Null)
  IN IF id = Raise THEN Raise
     ELSE IF Truthy(id) THEN Slice7(id) ELSE Str(<<>>)

\* The raw timestamp of a push: the head commit's, else the repository's
\* pushed_at, else utcnow().isoformat().
PushTimestampStr(payload, now) ==
  LET timestamp_str == Get(Get(payload, "head_commit", EmptyObj), "timestamp", Null) IN
  IF timestamp_str = Raise THEN Raise
  ELSE IF Truthy(timestamp_str) THEN timestamp_str
  ELSE Get(Get(payload, "repository", EmptyObj), "pushed_at", Str(UtcNowIsoformat(now)))

\* The event dict returned by both parse functions.
ParsedEvent(request_id, author, action, from_branch, to_branch, timestamp) ==
  [request_id |-> request_id, author |-> author, action |-> action,
   from_branch |-> from_branch, to_branch |-> to_branch, timestamp |-> timestamp]

\* The timestamp of an event from its raw value; an exception while the raw
\* value was read, or one that _parse_github_timestamp lets through, stays one.
ParseTimestamp(timestamp_str, now) ==
  IF timestamp_str = Raise THEN Raise ELSE _parse_github_timestamp(timestamp_str, now)

\* PushEvent with the action written in lower case.
PushEvent_lowercase_action(request_id, author, branch, timestamp) ==
  IF author = Raise \/ branch = Raise \/ request_id = Raise \/ timestamp = Raise
    THEN None
  ELSE ParsedEvent(request_id, author, Str(PushTag), branch, branch, timestamp)

\* The return of parse_push_event, or None from its except branch when any
\* step raised.
PushEvent(request_id, author, branch, timestamp) ==
  IF author = Raise \/ branch = Raise \/ request_id = Raise \/ timestamp = Raise
    THEN None
  ELSE ParsedEvent(request_id, author, PUSH, branch, branch, timestamp)

\* GitHubParser.parse_push_event
parse_push_event(payload, now) ==
  PushEvent(PushRequestId(payload), PushAuthor(payload), PushBranch(payload),
            ParseTimestamp(PushTimestampStr(payload, now), now))

\* payload.get('action', '').lower()
PrActionType(payload) ==
  LET a == Get(payload, "action", Str(<<>>)) IN
  IF a = Raise \/ ~IsStr(a) THEN Raise ELSE Str(Lower(a.v))

\* PrIsMerge without the test of the merged flag: every closed pull request.
PrIsMerge_ignores_merged(payload) ==
  /\ PrActionType(payload) = Str(Closed)
  /\ IsObj(Get(payload, "pull_request", EmptyObj))

\* action_type == 'closed' and pr_data.get('merged'): whether the pull request
\* event is a merge (the condition is only reached when pr_data is a dict).
PrIsMerge(payload) ==
  LET pr_data == Get(payload, "pull_request", EmptyObj) IN
  /\ PrActionType(payload) = Str(Closed)
  /\ IsObj(pr_data)
  /\ Truthy(Get(pr_data, "merged", Null))

\* The raw timestamp of a pull request event.
PrTimestampStr(payload, now) ==
  LET pr_data == Get(payload, "pull_request", EmptyObj) IN
  IF PrIsMerge(payload)
    THEN LET timestamp_str == Get(pr_data, "merged_at", Null) IN
         IF Truthy(timestamp_str) THEN timestamp_str
         ELSE Get(pr_data, "updated_at", Str(UtcNowIsoformat(now)))
  ELSE Get(pr_data, "created_at", Str(UtcNowIsoformat(now)))

\* The return of parse_pull_request_event, or None from its except branch.
PrEvent(number, author, action, from_branch, to_branch, timestamp) ==
  IF \/ number = Raise \/ author = Raise \/ from_branch = Raise
     \/ to_branch = Raise \/ timestamp = Raise
    THEN None
  ELSE ParsedEvent(Str(PyStr(number)), author, action, from_branch, to_branch, timestamp)

\* The fields of parse_pull_request_event read from pr_data; an action that
\* is not a str, or a pr_data that is not a dict, raises before any is read.
PrFields(action_type, payload, pr_data, now) ==
  IF action_type = Raise \/ ~IsObj(pr_data) THEN None
  ELSE PrEvent(Get(pr_data, "number", Str(<<>>)),
               Get(Get(pr_data, "user", EmptyObj), "login", Str(Unknown)),
               IF PrIsMerge(payload) THEN MERGE ELSE PULL_REQUEST,
               Get(Get(pr_data, "head", EmptyObj), "ref", Str(<<>>)),
               Get(Get(pr_data, "base", EmptyObj), "ref", Str(<<>>)),
               ParseTimestamp(PrTimestampStr(payload, now), now))

\* GitHubParser.parse_pull_request_event
parse_pull_request_event(payload, now) ==
  PrFields(PrActionType(payload), payload, Get(payload, "pull_request", EmptyObj), now)

\* parse_webhook_event whose else branch parses the payload as a push.
parse_webhook_event_default_push(event_type, payload, now) ==
  IF Lower(event_type) = PullRequestTag THEN parse_pull_request_event(payload, now)
  ELSE parse_push_event(payload, now)

\* GitHubParser.parse_webhook_event
parse_webhook_event(event_type, payload, now) ==
  LET event_type_lower == Lower(event_type) IN
  IF event_type_lower = PushTag THEN parse_push_event(payload, now)
  ELSE IF event_type_lower = PullRequestTag THEN parse_pull_request_event(payload, now)
  ELSE None

----------------------------------------------------------------------------
(* app/models/event_model.py                                               *)

ACTION_TYPES == {PUSH, PULL_REQUEST, MERGE}

\* EventModel.validate_action
validate_action(action) == action \in ACTION_TYPES

\* EventModel.create_event_document: a new dict with the six fields.
create_event_document(request_id, author, action, from_branch, to_branch, timestamp) ==
  [request_id |-> request_id, author |-> author, action |-> action,
   from_branch |-> from_branch, to_branch |-> to_branch, timestamp |-> timestamp]

----------------------------------------------------------------------------
(* Bounds of the model                                                     *)

\* The most documents the collection holds: a request is received while the
\* documents and the handlers in flight are fewer.
MaxEvents == 2

\* The last tick of the wall clock.
MaxTick == 1

\* The wall clock at tick t: one second per tick, starting two seconds before
\* midnight of 2024-01-01 UTC; odd ticks fall inside a second.
ClockInstant(t) ==
  LET s == 86398 + t
  IN Instant(Ymd2Ord(2023, 12, 31) + (s \div 86400), s % 86400,
             IF t % 2 = 0 THEN 0 ELSE 250000)

----------------------------------------------------------------------------
(* app/webhook/routes.py                                                   *)

\* A request body that is not JSON: request.get_json() raises BadRequest.
Malformed == [t |-> "malformed", v |-> 0]

\* jsonify(body), status
Response(status, body) == [status |-> status, body |-> body]

\* The request last acted on, as the handlers read it; id is the _id of the
\* document the store has written for it (0: none), kept for the properties.
Request(kind, header, body, since, tick, id) ==
  [kind |-> kind, header |-> header, body |-> body, since |-> since, now |-> tick,
   id |-> id]

\* request.headers.get('X-GitHub-Event', '').lower(); a missing header is Null.
EventType(header) == Lower(IF header = Null THEN <<>> ELSE header.v)

\* insert_one(event_doc): the document as stored, with the _id MongoDB assigns.
InsertedDoc(event_doc, id) == [_id |-> id] @@ event_doc

\* event.pop('_id', None)
PopId(doc) == [k \in (DOMAIN doc) \ {"_id"} |-> doc[k]]

\* The steps of receive_github_webhook after parse_webhook_event returned: the
\* response, and the document to insert (None when nothing is inserted).
ParsedOutcome(parsed_event) ==
  IF parsed_event = None
    THEN [resp |-> Response(200, [message |-> "Event type not supported or ignored"]),
          doc |-> None]
  ELSE IF ~validate_action(parsed_event.action)
    THEN [resp |-> Response(400, [error |-> "Invalid action type"]), doc |-> None]
  ELSE
    [resp |-> Response(200, [message |-> "Event stored successfully",
                             event |-> parsed_event]),
     doc |-> create_event_document(parsed_event.request_id, parsed_event.author,
                                   parsed_event.action, parsed_event.from_branch,
                                   parsed_event.to_branch, parsed_event.timestamp)]

\* The steps of receive_github_webhook from the payload on: get_json() raising
\* is answered 500 by the handler's except branch, a falsy payload 400.
WebhookOutcome(event_type, payload, now) ==
  IF payload = Malformed
    THEN [resp |-> Response(500, [error |-> "Internal server error"]), doc |-> None]
  ELSE IF ~Truthy(payload)
    THEN [resp |-> Response(400, [error |-> "No payload received"]), doc |-> None]
  ELSE ParsedOutcome(parse_webhook_event(event_type, payload, now))

----------------------------------------------------------------------------
(* The inputs the handlers and the parser are driven with                  *)

\* Sample strings.
Bob == <<"b", "o", "b">>
Alice == <<"a", "l", "i", "c", "e">>
RefMain == <<"r", "e", "f", "s", "/", "h", "e", "a", "d", "s", "/", "m", "a", "i", "n">>
RefTag == <<"r", "e", "f", "s", "/", "t", "a", "g", "s", "/", "v", "1">>
RefTwice == <<"r", "e", "f", "s", "/", "h", "e", "a", "d", "s", "/", "a", "/", "r", "e", "f", "s", "/", "h", "e", "a", "d", "s", "/", "b">>
RefInner == <<"x", "/", "r", "e", "f", "s", "/", "h", "e", "a", "d", "s", "/", "y">>
CommitId == <<"0", "1", "2", "3", "4", "5", "6", "7", "8", "9", "a", "b", "c", "d", "e", "f">>
ShortId == <<"a", "b", "c">>
TsNoon == <<"2", "0", "2", "4", "-", "0", "1", "-", "0", "1", "T", "1", "2", ":", "0", "0", ":", "0", "0", "Z">>
TsNoonOffset == <<"2", "0", "2", "4", "-", "0", "1", "-", "0", "1", "T", "1", "7", ":", "3", "0", ":", "0", "0", "+", "0", "5", ":", "3", "0">>
TsEve == <<"2", "0", "2", "3", "-", "1", "2", "-", "3", "1", "T", "2", "3", ":", "5", "9", ":", "5", "9">>
TsEarly == <<"2", "0", "2", "3", "-", "0", "6", "-", "1", "5", "T", "0", "8", ":", "0", "0", ":", "0", "0", ".", "1", "2", "3", "4", "5", "6", "-", "0", "2", ":", "0", "0">>
TsBasic == <<"2", "0", "2", "4", "-", "W", "0", "1", "-", "2", "T", "0", "9", "3", "0", "+", "0", "5", "3", "0", "\r", "\n">>
TsBad == <<"y", "e", "s", "t", "e", "r", "d", "a", "y">>
TsBadDay == <<"2", "0", "2", "4", "-", "0", "2", "-", "3", "0", "T", "0", "0", ":", "0", "0", ":", "0", "0", "Z">>
TsOverflow == <<"0", "0", "0", "1", "-", "0", "1", "-", "0", "1", "T", "0", "0", ":", "0", "0", ":", "0", "0", "+", "0", "5", ":", "3", "0">>
TagPushUpper == <<"P", "U", "S", "H">>
TagPrMixed == <<"P", "u", "l", "l", "_", "R", "e", "q", "u", "e", "s", "t">>
TagIssues == <<"i", "s", "s", "u", "e", "s">>
TagPing == <<"P", "i", "n", "g">>
Opened == <<"o", "p", "e", "n", "e", "d">>
Reopened == <<"r", "e", "o", "p", "e", "n", "e", "d">>
ClosedUpper == <<"C", "L", "O", "S", "E", "D">>
Feature == <<"f", "e", "a", "t", "u", "r", "e">>
Main == <<"m", "a", "i", "n">>
Yes == <<"f", "a", "l", "s", "e">>
CursorYear == <<"2", "0", "2", "4">>
CursorEve == <<"2", "0", "2", "3", "-", "1", "2", "-", "3", "1", "T", "2", "3", ":", "5", "9", ":", "5", "9", "Z">>

\* A field left out of an object.
Absent == [t |-> "absent", v |-> 0]

\* The JSON object with the fields of the record that are not Absent.
MkObj(fields) ==
  Obj([k \in {x \in DOMAIN fields : fields[x] # Absent} |-> fields[k]])

\* Values of payload['pusher'].
PusherOpts ==
  { Absent, Null, EmptyObj,
    Obj([name |-> Str(Bob)]), Obj([name |-> Str(Unknown)]),
    Obj([name |-> Str(<<>>)]), Obj([name |-> Null]) }

\* Values of payload['commits'].
CommitsOpts ==
  { Absent, List(<<>>), Str(Alice),
    List(<<EmptyObj>>),
    List(<<Obj([author |-> Obj([name |-> Str(Alice)])]), Obj([author |-> Obj([name |-> Str(Bob)])])>>),
    List(<<Obj([author |-> Obj([name |-> Str(<<>>)])])>>),
    List(<<Obj([author |-> Obj([name |-> Null])])>>),
    List(<<Obj([author |-> Null])>>) }

\* Values of payload['ref'].
RefOpts ==
  { Absent, Null, Str(RefMain), Str(RefTag), Str(Main), Str(RefTwice), Str(RefInner) }

\* Values of payload['head_commit'].
HeadCommitOpts ==
  { Absent, Null,
    Obj([id |-> Str(CommitId), timestamp |-> Str(TsNoon)]),
    Obj([id |-> Str(ShortId), timestamp |-> Str(TsBad)]),
    Obj([id |-> Num(7), timestamp |-> Str(TsEarly)]),
    Obj([id |-> Str(ShortId), timestamp |-> Str(TsBasic)]) }

\* The push payloads the parser is applied to.
PushPayloads ==
  { MkObj([pusher |-> p, commits |-> c, ref |-> r, head_commit |-> h]) :
      p \in PusherOpts, c \in CommitsOpts, r \in RefOpts, h \in HeadCommitOpts }

\* Values of payload['action'] of a pull request event.
ActionOpts == { Absent, Null, Str(Opened), Str(Reopened), Str(Closed), Str(ClosedUpper) }

\* Values of pull_request['merged'].
MergedOpts == { Absent, Null, Bool(TRUE), Bool(FALSE), Num(1), Str(Yes) }

\* Values of the timestamp fields of a pull request.
PrTimeOpts == { Absent, Null, Str(TsNoon), Str(TsBad), Str(TsBadDay), Str(TsOverflow) }

\* A pull request object.
PullRequest(merged, created_at, merged_at) ==
  MkObj([number |-> Num(42), user |-> Obj([login |-> Str(Alice)]),
         head |-> Obj([ref |-> Str(Feature)]), base |-> Obj([ref |-> Str(Main)]),
         merged |-> merged, created_at |-> created_at, merged_at |-> merged_at,
         updated_at |-> Str(TsNoonOffset)])

\* The pull request payloads the parser is applied to.
PullRequestPayloads ==
  { MkObj([action |-> a, pull_request |-> PullRequest(m, c, g)]) :
      a \in ActionOpts, m \in MergedOpts, c \in PrTimeOpts, g \in PrTimeOpts }
  \cup { MkObj([action |-> a, pull_request |-> pr]) :
           a \in ActionOpts, pr \in {Absent, Null, Str(Alice), EmptyObj} }

\* The (event type, payload) pairs parse_webhook_event is applied to.
ParseInputs ==
  { <<PushTag, pl>> : pl \in PushPayloads }
  \cup { <<PullRequestTag, pl>> : pl \in PullRequestPayloads }
  \cup { <<tag, pl>> : tag \in {TagPushUpper, TagPrMixed},
                       pl \in {Obj([ref |-> Str(RefMain)]), Obj([action |-> Str(Opened)])} }
  \cup { <<tag, pl>> : tag \in {TagIssues, TagPing, <<>>},
                       pl \in {EmptyObj, Obj([ref |-> Str(RefMain)]), List(<<Num(1)>>)} }

\* A well-formed push payload.
GoodPush(name, ref, timestamp) ==
  Obj([pusher |-> Obj([name |-> Str(name)]), ref |-> Str(ref),
       commits |-> List(<<Obj([author |-> Obj([name |-> Str(Alice)])])>>),
       head_commit |-> Obj([id |-> Str(CommitId), timestamp |-> timestamp])])

\* A webhook request: the X-GitHub-Event header (Null when missing) and the
\* body.
Webhook(header, body) == [header |-> header, body |-> body]

\* The webhook requests the service is driven with.
Requests ==
  { \* pushes that parse
    Webhook(Str(PushTag), GoodPush(Bob, RefMain, Str(TsNoon))),
    Webhook(Str(TagPushUpper), GoodPush(Alice, RefTwice, Str(TsNoonOffset))),
    Webhook(Str(PushTag), GoodPush(Bob, RefTag, Str(TsEve))),
    \* pushes whose timestamp does not parse
    Webhook(Str(PushTag), GoodPush(Bob, RefMain, Str(TsBad))),
    \* pushes whose extraction raises
    Webhook(Str(PushTag), Obj([ref |-> Str(RefMain), head_commit |-> Null])),
    Webhook(Str(PushTag), List(<<Num(1)>>)),
    \* pull requests
    Webhook(Str(PullRequestTag),
            Obj([action |-> Str(Opened), pull_request |-> PullRequest(Bool(FALSE), Str(TsNoon), Null)])),
    Webhook(Str(TagPrMixed),
            Obj([action |-> Str(Closed), pull_request |-> PullRequest(Bool(TRUE), Str(TsEve), Str(TsNoon))])),
    Webhook(Str(PullRequestTag),
            Obj([action |-> Str(Closed), pull_request |-> PullRequest(Bool(FALSE), Null, Null)])),
    Webhook(Str(PullRequestTag), Obj([action |-> Str(Opened), pull_request |-> Str(Alice)])),
    \* other event types and a missing header
    Webhook(Str(TagIssues), GoodPush(Bob, RefMain, Str(TsNoon))),
    Webhook(Null, GoodPush(Bob, RefMain, Str(TsNoon))),
    \* no payload
    Webhook(Str(TagIssues), EmptyObj),
    Webhook(Str(PullRequestTag), Null),
    Webhook(Null, List(<<>>)),
    \* a body that is not JSON
    Webhook(Str(PushTag), Malformed) }

\* The since parameters get_events is polled with (Null: no parameter).
Cursors ==
  { Null, Str(<<>>), Str(TsNoon), Str(CursorEve), Str(CursorYear) }

\* The webhook requests of the polling-client scenario: pushes with equal,
\* earlier and later commit timestamps.
FeedRequests ==
  { Webhook(Str(PushTag), GoodPush(Bob, RefMain, Str(TsNoon))),
    Webhook(Str(PushTag), GoodPush(Alice, RefMain, Str(TsNoonOffset))),
    Webhook(Str(PushTag), GoodPush(Bob, RefMain, Str(TsEve))),
    Webhook(Str(PushTag), GoodPush(Bob, RefMain, Str(TsBad))),
    Webhook(Str(TagIssues), GoodPush(Bob, RefMain, Str(TsNoon))) }

\* The clock ticks.
Ticks == 0..MaxTick

\* The outcome of every request at every tick, computed once.
Handled ==
  [r \in Requests \cup FeedRequests, t \in Ticks |->
     WebhookOutcome(EventType(r.header), r.body, ClockInstant(t))]

----------------------------------------------------------------------------
(* The two routes of app/webhook/routes.py as actions                      *)

\* POST /webhook/github with the given X-GitHub-Event header and body, up to
\* the call of insert_one; the parser reads the clock at tick t.  A request
\* that yields no document is answered at once; one that yields a document
\* waits for insert_one, and other requests are served meanwhile.
receive_github_webhook(header, body, t) ==
  /\ Len(events) + BagCardinality(pending) < MaxEvents
  /\ clock' = t
  /\ IF Handled[Webhook(header, body), t].doc = None
       THEN /\ req' = Request("webhook", header, body, Null, t, 0)
            /\ resp' = Handled[Webhook(header, body), t].resp
            /\ pending' = pending
       ELSE /\ req' = Request("received", header, body, Null, t, 0)
            /\ resp' = Response(0, Null)
            /\ pending' = pending (+) SetToBag({[header |-> header, body |-> body,
                                                now |-> t, id |-> 0]})
  /\ UNCHANGED <<events, cursor, delivered>>

\* insert_one with the document replacing the collection instead of joining
\* it.
insert_one_overwrite(h) ==
  /\ BagIn(h, pending)
  /\ h.id = 0
  /\ events' = <<InsertedDoc(Handled[Webhook(h.header, h.body), h.now].doc, 1)>>
  /\ pending' = (pending (-) SetToBag({h})) (+) SetToBag({[h EXCEPT !.id = 1]})
  /\ req' = Request("insert_one", h.header, h.body, Null, h.now, 1)
  /\ resp' = Response(0, Null)
  /\ UNCHANGED <<clock, cursor, delivered>>

\* The store carries out the insert_one of the waiting handler h: the
\* document is in the collection, and polls see it, before the call returns
\* to the handler.
insert_one(h) ==
  /\ BagIn(h, pending)
  /\ h.id = 0
  /\ events' = Append(events, InsertedDoc(Handled[Webhook(h.header, h.body), h.now].doc,
                                          Len(events) + 1))
  /\ pending' = (pending (-) SetToBag({h})) (+) SetToBag({[h EXCEPT !.id = Len(events) + 1]})
  /\ req' = Request("insert_one", h.header, h.body, Null, h.now, Len(events) + 1)
  /\ resp' = Response(0, Null)
  /\ UNCHANGED <<clock, cursor, delivered>>

\* The call of insert_one ends for the waiting handler h, and h answers.  The
\* call returns once the document is written, and h answers 200 with the
\* Event.  The call raises when the store did not write the document, or
\* wrote it and the acknowledgement was lost: h answers 500, and a document
\* that was written stays in the collection.
Respond(h) ==
  /\ BagIn(h, pending)
  /\ pending' = pending (-) SetToBag({h})
  /\ req' = Request("webhook", h.header, h.body, Null, h.now, h.id)
  /\ \/ /\ h.id # 0
        /\ resp' = Handled[Webhook(h.header, h.body), h.now].resp
     \/ resp' = Response(500, [error |-> "Internal server error"])
  /\ UNCHANGED <<events, clock, cursor, delivered>>

\* request.args.get('since', ''); a missing parameter is Null.
SinceTimestamp(since) == IF since = Null THEN <<>> ELSE since.v

\* MatchesQuery with $gte in place of $gt.
MatchesQuery_gte(doc, since_timestamp) ==
  IsStr(doc.timestamp) /\ ~StrLess(doc.timestamp.v, since_timestamp)

\* {'timestamp': {'$gt': since_timestamp}}: MongoDB compares strings with
\* strings only, byte by byte.
MatchesQuery(doc, since_timestamp) ==
  IsStr(doc.timestamp) /\ StrLess(since_timestamp, doc.timestamp.v)

\* The positions in the collection of the documents get_events selects.
Selected(since_timestamp) ==
  {i \in 1..Len(events) :
     since_timestamp = <<>> \/ MatchesQuery(events[i], since_timestamp)}

\* .sort('timestamp', 1): the orders in which MongoDB may return the selected
\* documents; documents with equal timestamps come in any order.
SortedOrders(sel) ==
  {o \in [1..Cardinality(sel) -> sel] :
     /\ \A i, j \in 1..Cardinality(sel) : i # j => o[i] # o[j]
     /\ \A i, j \in 1..Cardinality(sel) :
          i < j => ~StrLess(events[o[j]].timestamp.v, events[o[i]].timestamp.v)}

\* The list get_events returns for the documents at positions o.
EventsList(o) == [i \in 1..Len(o) |-> PopId(events[o[i]])]

\* GET /webhook/events[?since=...]: the selected documents are returned, or
\* the query raises and the handler answers 500.  The handler does not read
\* the clock.
get_events(since) ==
  /\ req' = Request("poll", Null, Null, since, clock, 0)
  /\ \/ \E o \in SortedOrders(Selected(SinceTimestamp(since))) :
          resp' = Response(200, EventsList(o))
     \/ resp' = Response(500, [error |-> "Internal server error"])
  /\ UNCHANGED <<events, clock, pending, cursor, delivered>>

\* The greatest timestamp among c (Null when nothing was received yet) and
\* the timestamps of the received list.
RECURSIVE GreatestTimestamp(_, _)
GreatestTimestamp(c, list) ==
  IF list = <<>> THEN c
  ELSE GreatestTimestamp(
         IF c = Null \/ StrLess(c.v, Head(list).timestamp.v) THEN Head(list).timestamp ELSE c,
         Tail(list))

\* A polling client: GET /webhook/events with since = the greatest timestamp
\* it has received so far (no parameter on its first poll).  delivered
\* records, for the model only, the _id of every document it was sent.  A
\* poll answered 500 leaves the client where it was.
client_poll ==
  /\ req' = Request("poll", Null, Null, cursor, clock, 0)
  /\ \/ \E o \in SortedOrders(Selected(SinceTimestamp(cursor))) :
          /\ resp' = Response(200, EventsList(o))
          /\ delivered' = delivered \o [i \in 1..Len(o) |-> events[o[i]]._id]
          /\ cursor' = GreatestTimestamp(cursor, EventsList(o))
     \/ /\ resp' = Response(500, [error |-> "Internal server error"])
        /\ UNCHANGED <<cursor, delivered>>
  /\ UNCHANGED <<events, clock, pending>>

----------------------------------------------------------------------------
(* The service: webhooks and polls, served concurrently                    *)

Init ==
  /\ events = <<>>
  /\ clock = 0
  /\ pending = EmptyBag
  /\ req = Request("none", Null, Null, Null, 0, 0)
  /\ resp = Response(0, Null)
  /\ cursor = Null
  /\ delivered = <<>>

\* The clock does not run backwards; it advances by at most one tick between
\* two readings.
LaterTicks == {t \in Ticks : t = clock \/ t = clock + 1}

Next ==
  \/ \E r \in Requests, t \in LaterTicks : receive_github_webhook(r.header, r.body, t)
  \/ \E h \in BagToSet(pending) : insert_one(h)
  \/ \E h \in BagToSet(pending) : Respond(h)
  \/ \E since \in Cursors : get_events(since)

Spec == Init /\ [][Next]_vars

\* The service with one polling client.
NextFeed ==
  \/ \E r \in FeedRequests, t \in LaterTicks : receive_github_webhook(r.header, r.body, t)
  \/ \E h \in BagToSet(pending) : insert_one(h)
  \/ \E h \in BagToSet(pending) : Respond(h)
  \/ client_poll

SpecFeed == Init /\ [][NextFeed]_vars

----------------------------------------------------------------------------
(* The parser applied to one input                                         *)

InitParse ==
  /\ events = <<>>
  /\ clock \in Ticks
  /\ pending = EmptyBag
  /\ \E x \in ParseInputs : req = Request("parse", Str(x[1]), x[2], Null, clock, 0)
  /\ resp = Response(0, Null)
  /\ cursor = Null
  /\ delivered = <<>>

\* parse_webhook_event(event_type, payload) at the instant of the clock.
apply_parse ==
  /\ req.kind = "parse"
  /\ req' = [req EXCEPT !.kind = "parsed"]
  /\ resp' = Response(0, parse_webhook_event(req.header.v, req.body, ClockInstant(clock)))
  /\ UNCHANGED <<events, clock, pending, cursor, delivered>>

NextParse == apply_parse

SpecParse == InitParse /\ [][NextParse]_vars
----------------------------------------------------------------------------
(* Properties                                                              *)

\* The last request answered was a webhook with a payload the handler goes on
\* with.
ReqHasPayload == req.kind = "webhook" /\ req.body # Malformed /\ Truthy(req.body)

\* Its event type is one of the two the parser supports.
ReqSupported == EventType(req.header) \in {PushTag, PullRequestTag}

\* parse_webhook_event on every webhook request at every clock tick.
Normalized ==
  [r \in Requests \cup FeedRequests, t \in Ticks |->
     parse_webhook_event(EventType(r.header), r.body, ClockInstant(t))]

\* What parse_webhook_event returned for it.
ReqParsed == Normalized[Webhook(req.header, req.body), req.now]

\* The six fields of an Event.
EventFields == {"request_id", "author", "action", "from_branch", "to_branch", "timestamp"}

\* e is an Event with exactly the six fields, equal to those of doc.
SameEvent(e, doc) == DOMAIN e = EventFields /\ \A k \in EventFields : e[k] = doc[k]

\* The response says the event was stored.
StoredResponse ==
  /\ resp.status = 200
  /\ DOMAIN resp.body = {"message", "event"}
  /\ resp.body.message = "Event stored successfully"

\* C1: when the event type is push or pull_request and the extraction raises
\* (parse_webhook_event returns None), the handler answers with an error
\* status (4xx/5xx), never with a success.
C1_ParseFailureIsError ==
  (ReqHasPayload /\ ReqSupported /\ ReqParsed = None) => resp.status >= 400

\* C2 as claimed: for an event type other than push and pull_request and ANY
\* payload, parse_webhook_event returns None, the handler answers 200 with a
\* message, and the collection is unchanged.
C2_UnsupportedAnyPayload ==
  [][ ( /\ req'.kind = "webhook"
        /\ req'.body # Malformed
        /\ EventType(req'.header) \notin {PushTag, PullRequestTag} )
      => ( /\ parse_webhook_event(EventType(req'.header), req'.body,
                                  ClockInstant(req'.now)) = None
           /\ resp'.status = 200
           /\ DOMAIN resp'.body = {"message"}
           /\ events' = events ) ]_vars

\* C2 as amended: the same for any payload that is truthy (not null, false, 0,
\* "", [] or {}); a falsy payload is answered 400 before the event type is
\* looked at.
C2_UnsupportedTruthyPayload ==
  [][ ( /\ req'.kind = "webhook"
        /\ req'.body # Malformed
        /\ Truthy(req'.body)
        /\ EventType(req'.header) \notin {PushTag, PullRequestTag} )
      => ( /\ parse_webhook_event(EventType(req'.header), req'.body,
                                  ClockInstant(req'.now)) = None
           /\ resp'.status = 200
           /\ DOMAIN resp'.body = {"message"}
           /\ events' = events ) ]_vars

\* An "issues" webhook with a payload was answered 200 while the collection
\* held a document.
C2_Witness ==
  /\ ReqHasPayload
  /\ req.header = Str(TagIssues)
  /\ resp.status = 200
  /\ Len(events) >= 1

\* The since parameter of the last poll ('' when missing).
PollSince == IF req.since = Null THEN <<>> ELSE req.since.v

\* The positions of the stored events a poll must return.
PollWanted ==
  {i \in 1..Len(events) : PollSince = <<>> \/ StrLess(PollSince, events[i].timestamp.v)}

\* The storage call of the last request raised, and the handler answered 500.
QueryRaised ==
  /\ req.kind \in {"poll", "webhook"}
  /\ req.body # Malformed
  /\ resp = Response(500, [error |-> "Internal server error"])

\* C3: get_events returns exactly the stored Events whose timestamp is
\* strictly greater than the cursor (all of them without a cursor), each as
\* often as it is stored, in ascending timestamp order and without _id.  (A
\* query the store fails to carry out returns no list at all.)
C3_PollReturnsNewerEvents ==
  (req.kind = "poll" /\ ~QueryRaised) =>
    /\ resp.status = 200
    /\ Len(resp.body) = Cardinality(PollWanted)
    /\ \A i \in 1..Len(resp.body) : DOMAIN resp.body[i] = EventFields
    /\ \A i \in PollWanted :
         Cardinality({j \in 1..Len(resp.body) : SameEvent(resp.body[j], events[i])})
           = Cardinality({j \in PollWanted : \A k \in EventFields : events[j][k] = events[i][k]})
    /\ \A i, j \in 1..Len(resp.body) :
         i < j => ~StrLess(resp.body[j].timestamp.v, resp.body[i].timestamp.v)

\* A poll whose cursor equals the timestamp of one of two stored events
\* returned the other one only.
C3_Witness ==
  /\ req.kind = "poll"
  /\ resp.status = 200
  /\ req.since = Str(CursorEve)
  /\ Len(events) = 2
  /\ \E i \in 1..Len(events) : events[i].timestamp = Str(CursorEve)
  /\ Len(resp.body) = 1

\* The parser was applied to a pull_request (push) input and returned an Event.
ParsedPr ==
  req.kind = "parsed" /\ Lower(req.header.v) = PullRequestTag /\ resp.body # None

ParsedPush ==
  req.kind = "parsed" /\ Lower(req.header.v) = PushTag /\ resp.body # None

\* The action sub-field and the merged flag of the pull_request payload.
PayloadAction == Get(req.body, "action", Str(<<>>))

PayloadMerged == Get(Get(req.body, "pull_request", EmptyObj), "merged", Null)

\* C4 as claimed: the action of a pull_request Event is MERGE if and only if
\* the action sub-field is "closed" and the merged flag is true, and
\* PULL_REQUEST otherwise; the action of a push Event is PUSH.
C4_MergeIffClosedAndMerged ==
  /\ ParsedPr =>
       /\ resp.body.action = MERGE
            <=> (PayloadAction = Str(Closed) /\ PayloadMerged = Bool(TRUE))
       /\ resp.body.action \in {MERGE, PULL_REQUEST}
  /\ ParsedPush => resp.body.action = PUSH

\* C4 as amended: MERGE if and only if the action sub-field, lower-cased, is
\* "closed" and the merged flag is truthy.
C4_MergeIffClosedAnyCaseAndTruthy ==
  /\ ParsedPr =>
       /\ resp.body.action = MERGE
            <=> (Lower(PayloadAction.v) = Closed /\ Truthy(PayloadMerged))
       /\ resp.body.action \in {MERGE, PULL_REQUEST}
  /\ ParsedPush => resp.body.action = PUSH

\* A pull request with action "CLOSED" and merged 1 was classified MERGE.
C4_Witness ==
  /\ ParsedPr
  /\ PayloadAction = Str(ClosedUpper)
  /\ PayloadMerged = Num(1)
  /\ resp.body.action = MERGE

\* A name that is there: a non-empty string.
HasName(x) == x.t = "str" /\ x.v # <<>>

\* The pusher name and the first commit's author name of the push payload
\* (Null when there is none).
PusherName == Get(Get(req.body, "pusher", EmptyObj), "name", Null)

FirstCommit(commits) ==
  IF commits.t = "list" /\ commits.v # <<>>
    THEN Get(Get(commits.v[1], "author", EmptyObj), "name", Null)
  ELSE Null

FirstCommitName == FirstCommit(Get(req.body, "commits", List(<<>>)))

\* C5: the author of a push Event is the pusher name when there is one other
\* than "Unknown", else the first commit's author name when there is one, else
\* "Unknown"; it is never empty or null.
C5_PushAuthorNeverEmpty ==
  ParsedPush =>
    /\ resp.body.author =
         IF HasName(PusherName) /\ PusherName # Str(Unknown) THEN PusherName
         ELSE IF HasName(FirstCommitName) THEN FirstCommitName
         ELSE Str(Unknown)
    /\ resp.body.author # Str(<<>>)
    /\ resp.body.author # Null

\* s without its first n characters.
Suffix(s, n) == SubSeq(s, n + 1, Len(s))

\* The ref of the push payload.
PayloadRef == Get(req.body, "ref", Str(<<>>))

\* C6: from_branch and to_branch of a push Event are equal, and are the ref
\* without its one leading "refs/heads/" (the rest kept verbatim), or the ref
\* itself when it does not start with "refs/heads/".
C6_BranchIsRefWithoutLeadingPrefix ==
  ParsedPush =>
    /\ resp.body.from_branch = resp.body.to_branch
    /\ resp.body.to_branch =
         IF StartsWith(PayloadRef.v, RefsHeads)
           THEN Str(Suffix(PayloadRef.v, Len(RefsHeads)))
         ELSE PayloadRef

\* Every field of the last webhook but the timestamp was extracted.
OtherFieldsExtract ==
  IF EventType(req.header) = PushTag
    THEN /\ PushAuthor(req.body) # Raise
         /\ PushBranch(req.body) # Raise
         /\ PushRequestId(req.body) # Raise
  ELSE /\ PrActionType(req.body) # Raise
       /\ IsObj(Get(req.body, "pull_request", EmptyObj))
       /\ Get(Get(req.body.v.pull_request, "user", EmptyObj), "login", Null) # Raise
       /\ Get(Get(req.body.v.pull_request, "head", EmptyObj), "ref", Null) # Raise
       /\ Get(Get(req.body.v.pull_request, "base", EmptyObj), "ref", Null) # Raise

\* The raw timestamp value of the last webhook.
RawTimestamp ==
  IF EventType(req.header) = PushTag
    THEN PushTimestampStr(req.body, ClockInstant(req.now))
  ELSE PrTimestampStr(req.body, ClockInstant(req.now))

\* s has the form YYYY-MM-DDTHH:MM:SSZ.
IsCanonical(s) ==
  /\ Len(s) = 20
  /\ \A i \in {1, 2, 3, 4, 6, 7, 9, 10, 12, 13, 15, 16, 18, 19} : IsDigit(s[i])
  /\ s[5] = "-" /\ s[8] = "-" /\ s[11] = "T" /\ s[14] = ":" /\ s[17] = ":" /\ s[20] = "Z"

\* The last webhook is a push or pull_request whose fields extract and whose
\* raw timestamp does not parse.
TimestampFails ==
  /\ ReqHasPayload
  /\ ReqSupported
  /\ OtherFieldsExtract
  /\ RawTimestamp # Raise
  /\ TryParseTimestamp(RawTimestamp) = Raise

\* C7: a timestamp that does not parse is not propagated: the parser returns
\* an Event whose timestamp is the instant it read the clock at, in the
\* canonical form, and when insert_one has returned the handler answers
\* success with that Event, which is the document the store wrote for it
\* (other handlers' documents may have been written since).
C7_BadTimestampFallsBackToNow ==
  TimestampFails =>
    /\ ReqParsed # None
    /\ IsStr(ReqParsed.timestamp)
    /\ IsCanonical(ReqParsed.timestamp.v)
    /\ ReqParsed.timestamp = Str(StrftimeZ(DateTimeOf(ClockInstant(req.now))))
    /\ ~QueryRaised =>
         /\ StoredResponse
         /\ resp.body.event = ReqParsed
         /\ req.id \in 1..Len(events)
         /\ SameEvent(resp.body.event, events[req.id])

\* A push whose head commit timestamp is "yesterday" was answered 200 after
\* its document was written first and another handler's second.
C7_Witness ==
  /\ TimestampFails
  /\ EventType(req.header) = PushTag
  /\ RawTimestamp = Str(TsBad)
  /\ StoredResponse
  /\ req.id = 1
  /\ Len(events) = 2

\* The step answers a webhook that normalizes and validates.
AnswersNormalized ==
  /\ req'.kind = "webhook"
  /\ req'.body # Malformed
  /\ Truthy(req'.body)
  /\ Normalized[Webhook(req'.header, req'.body), req'.now] # None

\* The step leaves the collection as it is, or appends one document to it:
\* the Event of a webhook that normalizes and validates, written for a
\* handler that had no document written yet.
AppendsAnEventOrNothing ==
  \/ events' = events
  \/ /\ Len(events') = Len(events) + 1
     /\ SubSeq(events', 1, Len(events)) = events
     /\ req'.kind = "insert_one"
     /\ req'.id = Len(events')
     /\ BagIn([header |-> req'.header, body |-> req'.body, now |-> req'.now, id |-> 0],
              pending)
     /\ CopiesIn([header |-> req'.header, body |-> req'.body, now |-> req'.now,
                  id |-> req'.id], pending') = 1
     /\ Normalized[Webhook(req'.header, req'.body), req'.now] # None
     /\ SameEvent(Normalized[Webhook(req'.header, req'.body), req'.now],
                  events'[Len(events')])

\* The webhook the step answers has had exactly one document written, its
\* normalized Event.
WroteItsEvent ==
  /\ req'.id \in 1..Len(events')
  /\ SameEvent(Normalized[Webhook(req'.header, req'.body), req'.now], events'[req'.id])

\* The step answers 200 with the normalized Event.
AnswersStored ==
  /\ resp'.status = 200
  /\ DOMAIN resp'.body = {"message", "event"}
  /\ SameEvent(resp'.body.event, Normalized[Webhook(req'.header, req'.body), req'.now])

\* C8 as claimed: the collection is an append-only log: every webhook that
\* normalizes and validates has exactly one document appended, equal field
\* for field to the Event of its success response; every other step (another
\* outcome of a webhook, a poll) leaves the collection unchanged, and no
\* stored document is modified or removed.
C8_AppendOnlyLog ==
  [][ /\ AppendsAnEventOrNothing
      /\ AnswersNormalized => (AnswersStored /\ WroteItsEvent) ]_vars

\* C8 as amended: the same, except that a webhook that normalizes and
\* validates is answered 500 when insert_one raises; then at most one
\* document has been appended for it: none, or its normalized Event when only
\* the acknowledgement was lost.
C8_AppendOnlyLogOrStoreError ==
  [][ /\ AppendsAnEventOrNothing
      /\ AnswersNormalized =>
           \/ AnswersStored /\ WroteItsEvent
           \/ /\ resp' = Response(500, [error |-> "Internal server error"])
              /\ req'.id = 0 \/ WroteItsEvent ]_vars

\* A webhook was answered 200 with its Event, the second document of the
\* collection.
C8_Witness ==
  /\ ReqHasPayload
  /\ StoredResponse
  /\ req.id = 2
  /\ Len(events) = 2
  /\ events[1]._id = 1
  /\ SameEvent(resp.body.event, events[2])

\* C9: every Event the parser produces, and every stored document, has an
\* action among PUSH, PULL_REQUEST and MERGE, and the handler never answers
\* "Invalid action type".
C9_ValidatorNeverFails ==
  /\ \A i \in 1..Len(events) : events[i].action \in {PUSH, PULL_REQUEST, MERGE}
  /\ (ReqHasPayload /\ ReqParsed # None) =>
       ReqParsed.action \in {PUSH, PULL_REQUEST, MERGE}
  /\ req.kind = "webhook" =>
       ~("error" \in DOMAIN resp.body /\ resp.body.error = "Invalid action type")

\* A PUSH and a MERGE document are stored.
C9_Witness ==
  /\ Len(events) = 2
  /\ events[1].action = PUSH
  /\ events[2].action = MERGE
  /\ req.kind = "webhook"
  /\ StoredResponse

\* C10: a client that polls with the greatest timestamp it has received gets
\* every stored Event exactly once: none is delivered twice, and every Event
\* it has not received yet has a timestamp strictly greater than its cursor.
C10_EveryEventDeliveredOnce ==
  /\ \A i, j \in 1..Len(delivered) : i # j => delivered[i] # delivered[j]
  /\ \A i \in 1..Len(events) :
       (\A j \in 1..Len(delivered) : delivered[j] # events[i]._id)
         => (cursor = Null \/ StrLess(cursor.v, events[i].timestamp.v))
====
